---- MODULE Spec2Model ----
(***************************************************************************)
(* Model of the CRC documentation server (src/server.py): the fetch ->     *)
(* extract -> rank pipeline, the process-wide document cache and HTTP      *)
(* session, and the two tools crc_doc_query and clear_cache running as     *)
(* coroutines on one event loop.                                           *)
(***************************************************************************)
EXTENDS Integers, Sequences, FiniteSets, TLC

(***************************************************************************)
(* Python string primitives.  Strings are TLA+ strings; Len, \o and SubSeq *)
(* apply to them.                                                          *)
(***************************************************************************)
Ch(s, i) == SubSeq(s, i, i)

Rest(s, i) == SubSeq(s, i, Len(s))

\* the ASCII characters str.isspace() accepts
Whitespace == {" ", "\t", "\n", "\r", "\f"}

\* str.lower() and str.upper() on the ASCII letters
ToLower ==
       "A" :> "a" @@ "B" :> "b" @@ "C" :> "c" @@ "D" :> "d" @@ "E" :> "e" @@ "F" :> "f" @@ "G" :> "g"
    @@ "H" :> "h" @@ "I" :> "i" @@ "J" :> "j" @@ "K" :> "k" @@ "L" :> "l" @@ "M" :> "m" @@ "N" :> "n"
    @@ "O" :> "o" @@ "P" :> "p" @@ "Q" :> "q" @@ "R" :> "r" @@ "S" :> "s" @@ "T" :> "t" @@ "U" :> "u"
    @@ "V" :> "v" @@ "W" :> "w" @@ "X" :> "x" @@ "Y" :> "y" @@ "Z" :> "z"

ToUpper ==
       "a" :> "A" @@ "b" :> "B" @@ "c" :> "C" @@ "d" :> "D" @@ "e" :> "E" @@ "f" :> "F" @@ "g" :> "G"
    @@ "h" :> "H" @@ "i" :> "I" @@ "j" :> "J" @@ "k" :> "K" @@ "l" :> "L" @@ "m" :> "M" @@ "n" :> "N"
    @@ "o" :> "O" @@ "p" :> "P" @@ "q" :> "Q" @@ "r" :> "R" @@ "s" :> "S" @@ "t" :> "T" @@ "u" :> "U"
    @@ "v" :> "V" @@ "w" :> "W" @@ "x" :> "X" @@ "y" :> "Y" @@ "z" :> "Z"

char_lower(c) == IF c \in DOMAIN ToLower THEN ToLower[c] ELSE c

char_upper(c) == IF c \in DOMAIN ToUpper THEN ToUpper[c] ELSE c

IsCased(c) == c \in DOMAIN ToLower \/ c \in DOMAIN ToUpper

RECURSIVE str_lower(_)
str_lower(s) == IF s = "" THEN "" ELSE char_lower(Ch(s, 1)) \o str_lower(Rest(s, 2))

RECURSIVE str_lstrip(_)
str_lstrip(s) == IF s # "" /\ Ch(s, 1) \in Whitespace THEN str_lstrip(Rest(s, 2)) ELSE s

RECURSIVE str_rstrip(_)
str_rstrip(s) == IF s # "" /\ Ch(s, Len(s)) \in Whitespace
                 THEN str_rstrip(SubSeq(s, 1, Len(s) - 1)) ELSE s

\* str.strip(): drop leading and trailing whitespace
str_strip(s) == str_rstrip(str_lstrip(s))

\* str.split(sep) for a one-character separator: every separator cuts, so
\* empty pieces are kept
RECURSIVE str_split(_, _)
str_split(s, sep) ==
    LET cuts == {i \in 1..Len(s) : Ch(s, i) = sep}
    IN  IF cuts = {} THEN <<s>>
        ELSE LET c == CHOOSE i \in cuts : \A j \in cuts : i <= j
             IN  <<SubSeq(s, 1, c - 1)>> \o str_split(Rest(s, c + 1), sep)

\* str.split() without argument: cut on runs of whitespace, no empty pieces
RECURSIVE str_split_ws(_)
str_split_ws(s) ==
    LET t == str_strip(s)
        ws == {i \in 1..Len(t) : Ch(t, i) \in Whitespace}
    IN  IF t = "" THEN <<>>
        ELSE IF ws = {} THEN <<t>>
        ELSE LET c == CHOOSE i \in ws : \A j \in ws : i <= j
             IN  <<SubSeq(t, 1, c - 1)>> \o str_split_ws(Rest(t, c + 1))

\* str.count(sub) for non-empty sub: non-overlapping occurrences, scanning
\* left to right
RECURSIVE str_count(_, _)
str_count(s, sub) ==
    IF Len(s) < Len(sub) THEN 0
    ELSE IF SubSeq(s, 1, Len(sub)) = sub
         THEN 1 + str_count(Rest(s, Len(sub) + 1), sub)
         ELSE str_count(Rest(s, 2), sub)

\* str.replace(old, new) for one-character old
RECURSIVE str_replace(_, _, _)
str_replace(s, old, new) ==
    IF s = "" THEN ""
    ELSE (IF Ch(s, 1) = old THEN new ELSE Ch(s, 1)) \o str_replace(Rest(s, 2), old, new)

\* str.title(): a cased character is upper-cased after an uncased one (or at
\* the start) and lower-cased after a cased one
RECURSIVE title_from(_, _)
title_from(s, prevCased) ==
    IF s = "" THEN ""
    ELSE (IF prevCased THEN char_lower(Ch(s, 1)) ELSE char_upper(Ch(s, 1)))
         \o title_from(Rest(s, 2), IsCased(Ch(s, 1)))

str_title(s) == title_from(s, FALSE)

\* str(n) for a natural number
RECURSIVE str_int(_)
str_int(n) == IF n < 10 THEN Ch("0123456789", n + 1)
              ELSE str_int(n \div 10) \o Ch("0123456789", (n % 10) + 1)

\* "sep".join(parts)
RECURSIVE str_join(_, _)
str_join(sep, parts) ==
    IF parts = <<>> THEN ""
    ELSE IF Len(parts) = 1 THEN parts[1]
    ELSE parts[1] \o sep \o str_join(sep, Tail(parts))

(***************************************************************************)
(* Relevance ranker: find_relevant_sections.                               *)
(***************************************************************************)
MinSentenceLen == 20

TopSections == 5

\* a filter that keeps the pieces of length 20 as well
RECURSIVE strip_and_keep_20(_)
strip_and_keep_20(parts) ==
    IF parts = <<>> THEN <<>>
    ELSE LET s == str_strip(Head(parts))
         IN  (IF s # "" /\ Len(s) >= MinSentenceLen THEN <<s>> ELSE <<>>)
             \o strip_and_keep_20(Tail(parts))

\* sentences = [s.strip() for s in content.split('.')
\*              if s.strip() and len(s.strip()) > 20]
RECURSIVE strip_and_keep(_)
strip_and_keep(parts) ==
    IF parts = <<>> THEN <<>>
    ELSE LET s == str_strip(Head(parts))
         IN  (IF s # "" /\ Len(s) > MinSentenceLen THEN <<s>> ELSE <<>>)
             \o strip_and_keep(Tail(parts))

sentences_of(content) == strip_and_keep(str_split(content, "."))

query_terms_of(q) == str_split_ws(str_lower(q))

\* score = sum(sentence_lower.count(term) for term in query_terms)
RECURSIVE sum_counts(_, _)
sum_counts(sentence_lower, query_terms) ==
    IF query_terms = <<>> THEN 0
    ELSE str_count(sentence_lower, Head(query_terms))
         + sum_counts(sentence_lower, Tail(query_terms))

score_of(sentence, query_terms) == sum_counts(str_lower(sentence), query_terms)

\* a sort that puts an entry before the earlier entries of the same score
RECURSIVE sort_ties_reversed(_)
sort_ties_reversed(pairs) ==
    IF pairs = <<>> THEN <<>>
    ELSE LET front == sort_ties_reversed(SubSeq(pairs, 1, Len(pairs) - 1))
             x == pairs[Len(pairs)]
             n == Cardinality({i \in 1..Len(front) : front[i].score > x.score})
         IN  SubSeq(front, 1, n) \o <<x>> \o SubSeq(front, n + 1, Len(front))

\* list.sort(key=lambda x: x[1], reverse=True): stable, so entries with equal
\* scores keep their relative order
RECURSIVE sort_by_score(_)
sort_by_score(pairs) ==
    IF pairs = <<>> THEN <<>>
    ELSE LET front == sort_by_score(SubSeq(pairs, 1, Len(pairs) - 1))
             x == pairs[Len(pairs)]
             n == Cardinality({i \in 1..Len(front) : front[i].score >= x.score})
         IN  SubSeq(front, 1, n) \o <<x>> \o SubSeq(front, n + 1, Len(front))

\* relevant_sections before the sort: the sentences with score > 0, each with
\* its score, in the order of the text
RECURSIVE score_sentences(_, _)
score_sentences(sentences, query_terms) ==
    IF sentences = <<>> THEN <<>>
    ELSE LET score == score_of(Head(sentences), query_terms)
         IN  (IF score > 0 THEN <<[sentence |-> Head(sentences), score |-> score]>>
              ELSE <<>>)
             \o score_sentences(Tail(sentences), query_terms)

\* [section[0] for section in sections]
RECURSIVE sentences_in(_)
sentences_in(pairs) ==
    IF pairs = <<>> THEN <<>>
    ELSE <<Head(pairs).sentence>> \o sentences_in(Tail(pairs))

find_relevant_sections(content, q) ==
    LET relevant_sections ==
            sort_by_score(score_sentences(sentences_of(content), query_terms_of(q)))
        n == IF Len(relevant_sections) < TopSections
             THEN Len(relevant_sections) ELSE TopSections
    IN  sentences_in(SubSeq(relevant_sections, 1, n))

(***************************************************************************)
(* Text extractor: extract_text_content.  A parsed document is a tree of   *)
(* nodes; an element has a tag name, a class list and children, a text     *)
(* node has name "#text" and a string.                                     *)
(***************************************************************************)
El(name, class, children) ==
    [name |-> name, class |-> class, text |-> "", children |-> children]

Txt(t) == [name |-> "#text", class |-> <<>>, text |-> t, children |-> <<>>]

IsText(n) == n.name = "#text"

UnwantedTags == {"script", "style", "nav", "header", "footer"}

\* a removal that looks at the top-level elements only
decompose_top_level(nodes) ==
    LET Kept(n) == IsText(n) \/ n.name \notin UnwantedTags
    IN  SelectSeq(nodes, Kept)

\* for element in soup([...]): element.decompose()
RECURSIVE decompose_unwanted(_)
decompose_unwanted(nodes) ==
    IF nodes = <<>> THEN <<>>
    ELSE LET n == Head(nodes)
             rest == decompose_unwanted(Tail(nodes))
         IN  IF IsText(n) THEN <<n>> \o rest
             ELSE IF n.name \in UnwantedTags THEN rest
             ELSE <<[n EXCEPT !.children = decompose_unwanted(n.children)]>> \o rest

\* the elements below a node list, in document order
RECURSIVE descendants(_)
descendants(nodes) ==
    IF nodes = <<>> THEN <<>>
    ELSE LET n == Head(nodes)
         IN  IF IsText(n) THEN descendants(Tail(nodes))
             ELSE <<n>> \o descendants(n.children) \o descendants(Tail(nodes))

\* the strings below a node list, in document order
RECURSIVE strings_of(_)
strings_of(nodes) ==
    IF nodes = <<>> THEN <<>>
    ELSE LET n == Head(nodes)
         IN  IF IsText(n) THEN <<n.text>> \o strings_of(Tail(nodes))
             ELSE strings_of(n.children) \o strings_of(Tail(nodes))

HasClass(n, c) == \E i \in 1..Len(n.class) : n.class[i] = c

\* soup.find(name): the first matching element, or None
NoNode == [name |-> "#none", class |-> <<>>, text |-> "", children |-> <<>>]

find_tag(nodes, name) ==
    LET IsHit(n) == n.name = name
        hits == SelectSeq(descendants(nodes), IsHit)
    IN  IF hits = <<>> THEN NoNode ELSE Head(hits)

\* soup.find('div', class_=c)
find_div_class(nodes, c) ==
    LET IsHit(n) == n.name = "div" /\ HasClass(n, c)
        hits == SelectSeq(descendants(nodes), IsHit)
    IN  IF hits = <<>> THEN NoNode ELSE Head(hits)

\* the first of the candidates that is not None; a Tag is always truthy
main_content_of(soup) ==
    LET cands == << find_tag(soup, "main"),
                    find_tag(soup, "article"),
                    find_div_class(soup, "content"),
                    find_div_class(soup, "documentation"),
                    find_tag(soup, "body") >>
        found == {i \in 1..Len(cands) : cands[i] # NoNode}
    IN  IF found = {} THEN soup
        ELSE cands[CHOOSE i \in found : \A j \in found : i <= j].children

\* get_text(separator=' ', strip=True): strip every string, drop the empty
\* ones, join with the separator
RECURSIVE strip_nonempty(_)
strip_nonempty(strs) ==
    IF strs = <<>> THEN <<>>
    ELSE LET t == str_strip(Head(strs))
         IN  (IF t # "" THEN <<t>> ELSE <<>>) \o strip_nonempty(Tail(strs))

get_text(nodes) == str_join(" ", strip_nonempty(strings_of(nodes)))

\* re.sub(r'\s+', ' ', text)
RECURSIVE collapse_whitespace(_)
collapse_whitespace(s) ==
    IF s = "" THEN ""
    ELSE IF Ch(s, 1) \notin Whitespace THEN Ch(s, 1) \o collapse_whitespace(Rest(s, 2))
    ELSE LET solid == {i \in 1..Len(s) : Ch(s, i) \notin Whitespace}
         IN  IF solid = {} THEN " "
             ELSE " " \o collapse_whitespace(Rest(s, CHOOSE i \in solid : \A j \in solid : i <= j))

extract_text_content(html_content) ==
    collapse_whitespace(get_text(main_content_of(decompose_unwanted(html_content))))

(***************************************************************************)
(* Source registry and the remote sites.                                   *)
(***************************************************************************)
\* DOC_SOURCES, in insertion order
DOC_SOURCES == << [name |-> "crc",      url |-> "https://crc.dev/docs"],
                  [name |-> "crc-blog", url |-> "https://crc.dev/blog"],
                  [name |-> "crc-dev",  url |-> "https://crc.dev/engineering-docs"] >>

RECURSIVE names_of(_)
names_of(entries) ==
    IF entries = <<>> THEN <<>> ELSE <<Head(entries).name>> \o names_of(Tail(entries))

\* list(DOC_SOURCES.keys())
source_keys == names_of(DOC_SOURCES)

SourceNames == {DOC_SOURCES[i].name : i \in 1..Len(DOC_SOURCES)}

\* a registry check that lets every identifier through
always_registered(source_name) == TRUE

\* source_name in DOC_SOURCES
is_registered(source_name) == source_name \in SourceNames

url_of(source_name) ==
    DOC_SOURCES[CHOOSE i \in 1..Len(DOC_SOURCES) : DOC_SOURCES[i].name = source_name].url

\* what the three sites serve: the document tree the parser builds from the
\* response body
Page(url) ==
    CASE url = "https://crc.dev/docs" ->
           << El("html", <<>>, <<
                El("head", <<>>, << El("script", <<>>, << Txt("var crc = 1;") >>) >>),
                El("body", <<>>, <<
                  El("nav", <<>>, << Txt("crc vm menu") >>),
                  El("main", <<>>, <<
                    El("h1", <<>>, << Txt(" CRC ") >>),
                    El("p", <<>>, << Txt("CRC runs OpenShift Local\n  on a VM. Start the cluster with crc start.") >>) >>),
                  El("footer", <<>>, << Txt("crc footer") >>) >>) >>) >>
      [] url = "https://crc.dev/blog" ->
           << El("html", <<>>, <<
                El("body", <<>>, <<
                  El("header", <<>>, << Txt("blog header") >>),
                  El("article", <<>>, <<
                    El("p", <<>>, << Txt("The blog announces each new release of crc.") >>),
                    El("p", <<>>, << Txt("Short one.") >>) >>),
                  El("div", <<"content">>, << Txt("Sidebar") >>) >>) >>) >>
      [] OTHER ->
           << El("html", <<>>, <<
                El("body", <<>>, <<
                  El("div", <<"wide", "documentation">>, <<
                    El("p", <<>>, << Txt("Engineering notes cover the vm driver.") >>),
                    El("style", <<>>, << Txt("p { color: red }") >>) >>) >>) >>) >>

\* HTTP status codes the sites answer with
Statuses == {200, 404}

\* str(e) of the transport failures
ExcMessages == {"Connection reset by peer"}

\* the marker of "no exception"
NoExc == "<no exception>"

\* outcomes of one HTTP exchange, session.get(url, timeout=10) followed by
\* response.text(): the GET fails (status 0), or it yields a status; after
\* status 200 the body arrives or reading it fails.  The coroutine touches
\* no shared state between the two awaits, so they are one step here
FetchOutcomes ==
    [status : {0}, exc : ExcMessages]
    \cup [status : Statuses, exc : {NoExc}]
    \cup [status : {200}, exc : ExcMessages]

Returned(v) == [kind |-> "return", val |-> v]

Raised(m) == [kind |-> "raise", val |-> m]

\* extract_text_content of what each site serves, computed once
PageText == [i \in 1..Len(DOC_SOURCES) |-> extract_text_content(Page(DOC_SOURCES[i].url))]

page_text(url) == PageText[CHOOSE i \in 1..Len(DOC_SOURCES) : DOC_SOURCES[i].url = url]

\* the body of the try block of fetch_documentation
try_fetch(url, o) ==
    IF o.status = 0 THEN Raised(o.exc)
    ELSE IF o.status = 200
         THEN IF o.exc # NoExc THEN Raised(o.exc)
              ELSE Returned(page_text(url))
    ELSE Returned("Failed to fetch " \o url \o " (Status: " \o str_int(o.status) \o ")")

\* fetch_documentation without its except clause
fetch_unguarded(url, o) == try_fetch(url, o)

\* fetch_documentation after the registry check: the try block, and the
\* except clause that turns an exception into a string
fetch_result(url, o) ==
    LET r == try_fetch(url, o)
    IN  IF r.kind = "raise" THEN Returned("Error fetching " \o url \o ": " \o r.val)
        ELSE r

(***************************************************************************)
(* Bounds of the model.                                                    *)
(***************************************************************************)
MaxProcs == 2

MaxCalls == 3

Procs == 1..MaxProcs

\* the value of a parameter left out (Python None)
None == "<None>"

Queries == {"", "crc"}

MixedList == <<"crc-blog", "docs", "crc", "crc-blog">>

SourceLists == {<<"docs">>, MixedList}

SourceArgs == {None, <<"docs">>, MixedList}

\* every content fetch_documentation can hand to the cache
Contents ==
    {fetch_result(DOC_SOURCES[i].url, o).val : i \in 1..Len(DOC_SOURCES), o \in FetchOutcomes}

\* find_relevant_sections of the contents and queries that occur, computed
\* once
\* a query whose one term occurs in the message of a transport failure and
\* in no page and no status message
ErrQueries == {"reset"}

\* a query of whitespace only
BlankQueries == {" \t"}

AllQueries == Queries \cup ErrQueries \cup BlankQueries

RankTable == [c \in Contents, q \in AllQueries |-> find_relevant_sections(c, q)]

\* the strings fetch_documentation builds for a failed fetch
IsErrorString(content) ==
    \/ Len(content) >= 14 /\ SubSeq(content, 1, 14) = "Error fetching"
    \/ Len(content) >= 15 /\ SubSeq(content, 1, 15) = "Failed to fetch"

\* a ranker that passes over the strings of failed fetches
ranked_text_only(content, q) ==
    IF IsErrorString(content) THEN <<>> ELSE find_relevant_sections(content, q)

ranked(content, q) ==
    IF content \in Contents /\ q \in AllQueries THEN RankTable[content, q]
    ELSE find_relevant_sections(content, q)

VARIABLES
    doc_cache,      \* source name -> cached content
    session,        \* "none" | "open" | "closed"
    sessions_created, \* number of ClientSession objects created (observer)
    phase,          \* "serving" | "exited"
    pc,             \* per call slot: "idle" | "get" (suspended in the HTTP
                    \* exchange) | "fault" (ended by an exception)
    op,             \* the call running in the slot: "none" | "query" | "fetch"
    query,          \* crc_doc_query: the query argument
    sources,        \* crc_doc_query: the resolved sources list
    idx,            \* crc_doc_query: position of the for loop in sources
    results,        \* crc_doc_query: the results list
    used,           \* per slot, the contents the loop has ranked (observer)
    cleared,        \* per slot, whether clear_cache ran while its call was in
                    \* progress (observer)
    owes,           \* per slot, the owed sources its query targets and has
                    \* not fetched (observer)
    returned,       \* the call that returned in the step just taken, with the
                    \* value it returned (observer)
    fetched,        \* while sequential holds, the sources fetched since the
                    \* epoch began (observer)
    calls,          \* number of calls started (observer, bounded)
    sequential,     \* since the last quiescent clear_cache (or the start)
                    \* every call was a query that overlapped no other call
    owed,           \* sources cached at the last clear_cache that since then
                    \* no query has started to target and nobody has fetched
                    \* (observer)
    extract_call,   \* a direct call of extract_text_content: its argument and,
                    \* once it has run, its result
    rank_call       \* a direct call of find_relevant_sections: its arguments
                    \* and, once it has run, its result

\* the shared HTTP session and the count of its creations
http == << session, sessions_created >>

server == << doc_cache, http, phase, pc, op, query, sources, idx, results,
             used, cleared, owes, returned, fetched, calls, sequential, owed >>

\* the calls of the pure functions on their own
pure == << rank_call, extract_call >>

vars == << server, pure >>

locals == << pc, op, query, sources, idx, results, used, owes >>

EmptyCache == [n \in {} |-> ""]

\* a cache that drops every store
cache_put_forgets(cache, source_name, content) == cache

\* a cache that keeps successful results only
cache_put_skips_errors(cache, source_name, content) ==
    IF IsErrorString(content) THEN cache
    ELSE [n \in DOMAIN cache \cup {source_name} |->
            IF n = source_name THEN content ELSE cache[n]]

\* a cache that never overwrites an entry
cache_put_keeps_first(cache, source_name, content) ==
    IF source_name \in DOMAIN cache THEN cache
    ELSE [n \in DOMAIN cache \cup {source_name} |->
            IF n = source_name THEN content ELSE cache[n]]

\* a cache that holds the latest entry only
cache_put_evicts(cache, source_name, content) == [n \in {source_name} |-> content]

\* a cache keyed by the URL of the source
cache_put_by_url(cache, source_name, content) ==
    [n \in DOMAIN cache \cup {url_of(source_name)} |->
        IF n = url_of(source_name) THEN content ELSE cache[n]]

\* doc_cache[source_name] = content
cache_put(cache, source_name, content) ==
    [n \in DOMAIN cache \cup {source_name} |->
        IF n = source_name THEN content ELSE cache[n]]

NoExtract == [html |-> <<>>, done |-> FALSE, text |-> ""]

NoRank == [content |-> "", q |-> "", done |-> FALSE, sections |-> <<>>]

NoCall == [op |-> "none", query |-> "", sources |-> <<>>, value |-> None,
           results |-> <<>>, used |-> <<>>, owes |-> {}, cleared |-> FALSE]

InitServer ==
    /\ doc_cache = EmptyCache
    /\ session = "none"
    /\ sessions_created = 0
    /\ cleared = [p \in Procs |-> FALSE]
    /\ phase = "serving"
    /\ pc = [p \in Procs |-> "idle"]
    /\ op = [p \in Procs |-> "none"]
    /\ query = [p \in Procs |-> ""]
    /\ sources = [p \in Procs |-> <<>>]
    /\ idx = [p \in Procs |-> 1]
    /\ results = [p \in Procs |-> <<>>]
    /\ used = [p \in Procs |-> <<>>]
    /\ owes = [p \in Procs |-> {}]
    /\ returned = NoCall
    /\ fetched = {}
    /\ calls = 0
    /\ sequential = TRUE
    /\ owed = {}

Init == InitServer /\ rank_call = NoRank /\ extract_call = NoExtract

InFlight == {p \in Procs : pc[p] = "get"}

\* the slot a new call runs in: the slots are interchangeable, so a call
\* takes the first free one
FreeSlot(p) == pc[p] = "idle" /\ \A r \in Procs : r < p => pc[r] # "idle"

\* a check that finds no session whatever there is
creates_always(s) == TRUE

\* if session is None
creates_session(s) == s = "none"

\* get_session(): create the session on first use
get_session(s) == IF creates_session(s) THEN "open" ELSE s

\* the call in slot p returns value: its frame is gone, the slot is free
Return(p, o, q, srcs, value, res, us, owe) ==
    /\ pc' = [pc EXCEPT ![p] = "idle"]
    /\ op' = [op EXCEPT ![p] = "none"]
    /\ query' = [query EXCEPT ![p] = ""]
    /\ sources' = [sources EXCEPT ![p] = <<>>]
    /\ idx' = [idx EXCEPT ![p] = 1]
    /\ results' = [results EXCEPT ![p] = <<>>]
    /\ used' = [used EXCEPT ![p] = <<>>]
    /\ owes' = [owes EXCEPT ![p] = {}]
    /\ cleared' = [cleared EXCEPT ![p] = FALSE]
    /\ returned' = [op |-> o, query |-> q, sources |-> srcs, value |-> value,
                    results |-> res, used |-> us, owes |-> owe,
                    cleared |-> cleared[p]]

\* the call in slot p suspends in the GET of source_name
Suspend(p, o, q, srcs, i, res, us, owe, owd) ==
    /\ pc' = [pc EXCEPT ![p] = "get"]
    /\ op' = [op EXCEPT ![p] = o]
    /\ query' = [query EXCEPT ![p] = q]
    /\ sources' = [sources EXCEPT ![p] = srcs]
    /\ idx' = [idx EXCEPT ![p] = i]
    /\ results' = [results EXCEPT ![p] = res]
    /\ used' = [used EXCEPT ![p] = us]
    /\ owes' = [r \in Procs |-> (IF r = p THEN owe ELSE owes[r]) \ {srcs[i]}]
    /\ owed' = owd \ {srcs[i]}
    /\ session' = get_session(session)
    /\ sessions_created' = sessions_created + (IF creates_session(session) THEN 1 ELSE 0)
    /\ UNCHANGED cleared
    /\ returned' = NoCall

(***************************************************************************)
(* crc_doc_query.                                                          *)
(***************************************************************************)
\* a query check that takes a blank query for an empty one
blank_is_empty(q) == str_strip(q) = ""

\* a query check that lets the empty query through
never_empty(q) == FALSE

\* if not query
is_empty_query(q) == q = ""

\* an append that does not look at relevant_sections
append_always(res, source_name, relevant_sections) ==
    Append(res, [source |-> source_name, url |-> url_of(source_name),
                 sections |-> relevant_sections])

\* if relevant_sections: results.append({...})
append_if_relevant(res, source_name, relevant_sections) ==
    IF relevant_sections # <<>>
    THEN Append(res, [source |-> source_name, url |-> url_of(source_name),
                      sections |-> relevant_sections])
    ELSE res

\* the for loop from position i up to the next cache miss or the end of the
\* list: unregistered names are skipped, cached sources are ranked
RECURSIVE run_loop(_, _, _, _, _, _)
run_loop(cache, q, srcs, i, res, us) ==
    IF i > Len(srcs) THEN [idx |-> i, results |-> res, used |-> us]
    ELSE IF ~is_registered(srcs[i]) THEN run_loop(cache, q, srcs, i + 1, res, us)
    ELSE IF srcs[i] \notin DOMAIN cache THEN [idx |-> i, results |-> res, used |-> us]
    ELSE LET content == cache[srcs[i]]
         IN  run_loop(cache, q, srcs, i + 1,
                      append_if_relevant(res, srcs[i], ranked(content, q)),
                      Append(us, [source |-> srcs[i], content |-> content]))

RECURSIVE format_sections(_, _)
format_sections(sections, i) ==
    IF i > Len(sections) THEN ""
    ELSE "**" \o str_int(i) \o ".** " \o sections[i] \o "\n\n"
         \o format_sections(sections, i + 1)

RECURSIVE format_results(_)
format_results(res) ==
    IF res = <<>> THEN ""
    ELSE "## " \o str_title(str_replace(Head(res).source, "-", " ")) \o "\n"
         \o "**Source:** " \o Head(res).url \o "\n\n"
         \o format_sections(Head(res).sections, 1)
         \o "---\n\n"
         \o format_results(Tail(res))

format_response(q, res) ==
    IF res = <<>> THEN "No relevant information found for: '" \o q \o "'"
    ELSE "# CRC Documentation Results\n\n**Query:** " \o q \o "\n\n" \o format_results(res)

\* run the loop of slot p on from position i; it ends in the return of the
\* call or in the GET of the next uncached source
Proceed(p, cache, q, srcs, i, res, us, owe, owd) ==
    LET r == run_loop(cache, q, srcs, i, res, us)
    IN  IF r.idx > Len(srcs)
        THEN /\ Return(p, "query", q, srcs, format_response(q, r.results),
                       r.results, r.used, owe)
             /\ fetched' = (IF sequential' THEN fetched ELSE {})
             /\ owed' = owd
             /\ UNCHANGED http
        ELSE /\ fetched' = (IF sequential' THEN fetched \cup {srcs[r.idx]} ELSE {})
             /\ Suspend(p, "query", q, srcs, r.idx, r.results, r.used, owe, owd)

Targets(srcs) == {srcs[i] : i \in 1..Len(srcs)} \cap SourceNames

\* a call of crc_doc_query up to its first suspension
crc_doc_query(p, q, srcArg) ==
    /\ phase = "serving"
    /\ FreeSlot(p)
    /\ calls < MaxCalls
    /\ calls' = calls + 1
    /\ sequential' = (sequential /\ InFlight = {})
    /\ UNCHANGED << phase, doc_cache, pure >>
    /\ IF is_empty_query(q)
       THEN /\ Return(p, "query", q, IF srcArg = None THEN <<>> ELSE srcArg,
                      "Please provide a query.", <<>>, <<>>, {})
            /\ fetched' = (IF sequential' THEN fetched ELSE {})
            /\ UNCHANGED << http, owed >>
       ELSE LET srcs == IF srcArg = None THEN source_keys ELSE srcArg
            IN  Proceed(p, doc_cache, q, srcs, 1, <<>>, <<>>,
                        owed \cap Targets(srcs), owed \ Targets(srcs))

\* fetch_documentation has returned content to the loop of slot p:
\* doc_cache[source_name] = content, rank it, and go on with the loop
\* a loop that gives up at the first failed fetch
StoreAndStopOnError(p, content) ==
    LET source_name == sources[p][idx[p]]
        cache == cache_put(doc_cache, source_name, content)
        res == append_if_relevant(results[p], source_name, ranked(content, query[p]))
        us == Append(used[p], [source |-> source_name, content |-> content])
    IN  /\ doc_cache' = cache
        /\ IF IsErrorString(content)
           THEN /\ Return(p, "query", query[p], sources[p],
                          format_response(query[p], res), res, us, owes[p])
                /\ fetched' = (IF sequential' THEN fetched ELSE {})
                /\ UNCHANGED << http, owed >>
           ELSE Proceed(p, cache, query[p], sources[p], idx[p] + 1, res, us, owes[p], owed)

StoreAndProceed(p, content) ==
    LET source_name == sources[p][idx[p]]
        cache == cache_put(doc_cache, source_name, content)
    IN  /\ doc_cache' = cache
        /\ Proceed(p, cache, query[p], sources[p], idx[p] + 1,
                   append_if_relevant(results[p], source_name, ranked(content, query[p])),
                   Append(used[p], [source |-> source_name, content |-> content]),
                   owes[p], owed)

\* the HTTP exchange of slot p completes and fetch_documentation ends: with
\* a string, which the loop stores and ranks, or with an exception, which
\* ends the call
Response(p, o) ==
    /\ phase = "serving"
    /\ pc[p] = "get"
    /\ o \in FetchOutcomes
    /\ UNCHANGED << phase, calls, sequential, pure >>
    /\ LET r == fetch_result(url_of(sources[p][idx[p]]), o)
       IN  IF r.kind = "raise"
           THEN /\ pc' = [pc EXCEPT ![p] = "fault"]
                /\ returned' = NoCall
                /\ UNCHANGED << doc_cache, http, op, query, sources, idx,
                                results, used, cleared, owes, fetched, owed >>
           ELSE IF op[p] = "query"
           THEN StoreAndProceed(p, r.val)
           ELSE /\ Return(p, "fetch", "", sources[p], r.val, <<>>, <<>>, {})
                /\ UNCHANGED << doc_cache, http, fetched, owed >>

(***************************************************************************)
(* clear_cache, and the end of the process.                                *)
(***************************************************************************)
\* a clear_cache that leaves the cache alone while a query is suspended
clear_cache_when_idle ==
    /\ phase = "serving"
    /\ doc_cache' = IF InFlight = {} THEN EmptyCache ELSE doc_cache
    /\ returned' = [NoCall EXCEPT !.op = "clear",
                  !.value = "Documentation cache cleared. Fresh content will be fetched on next query."]
    /\ fetched' = {}
    /\ sequential' = (InFlight = {})
    /\ owed' = DOMAIN doc_cache
    /\ cleared' = [p \in Procs |-> cleared[p] \/ pc[p] = "get"]
    /\ UNCHANGED << http, phase, locals, calls, pure >>

\* clear_cache has no suspension point: it runs from call to return and
\* needs no slot
clear_cache ==
    /\ phase = "serving"
    /\ doc_cache' = EmptyCache
    /\ returned' = [NoCall EXCEPT !.op = "clear",
                  !.value = "Documentation cache cleared. Fresh content will be fetched on next query."]
    /\ fetched' = {}
    /\ sequential' = (InFlight = {})
    /\ owed' = DOMAIN doc_cache
    /\ cleared' = [p \in Procs |-> cleared[p] \/ pc[p] = "get"]
    /\ UNCHANGED << http, phase, locals, calls, pure >>

\* cleanup(): close the session if there is one
cleanup(s) == IF s # "none" THEN "closed" ELSE s

\* mcp.run() returns and the module ends; nothing calls cleanup().  The
\* coroutines, their frames and the module globals go with the process; what
\* remains to observe is whether the session was closed
Exit ==
    /\ phase = "serving"
    /\ phase' = "exited"
    /\ doc_cache' = EmptyCache
    /\ pc' = [p \in Procs |-> "idle"]
    /\ op' = [p \in Procs |-> "none"]
    /\ query' = [p \in Procs |-> ""]
    /\ sources' = [p \in Procs |-> <<>>]
    /\ idx' = [p \in Procs |-> 1]
    /\ results' = [p \in Procs |-> <<>>]
    /\ used' = [p \in Procs |-> <<>>]
    /\ owes' = [p \in Procs |-> {}]
    /\ cleared' = [p \in Procs |-> FALSE]
    /\ returned' = NoCall
    /\ fetched' = {}
    /\ calls' = 0
    /\ sequential' = TRUE
    /\ owed' = {}
    /\ UNCHANGED << http, pure >>

\* a direct call of fetch_documentation up to its first suspension
fetch_documentation(p, source_name) ==
    /\ phase = "serving"
    /\ FreeSlot(p)
    /\ calls < MaxCalls
    /\ calls' = calls + 1
    /\ sequential' = FALSE
    /\ fetched' = {}
    /\ UNCHANGED << phase, doc_cache, pure >>
    /\ IF ~is_registered(source_name)
       THEN /\ Return(p, "fetch", "", <<source_name>>,
                      "Unknown source: " \o source_name, <<>>, <<>>, {})
            /\ UNCHANGED << http, owed >>
       ELSE Suspend(p, "fetch", "", <<source_name>>, 1, <<>>, <<>>, {}, owed)

\* the tools, as the transport calls them, the responses of the sites, and
\* the end of the process
Next ==
    \/ \E p \in Procs, q \in Queries, srcArg \in SourceArgs : crc_doc_query(p, q, srcArg)
    \/ \E p \in Procs, o \in FetchOutcomes : Response(p, o)
    \/ clear_cache
    \/ Exit

Spec == Init /\ [][Next]_vars

\* the server under queries for a word of the transport failure messages
NextErr ==
    \/ \E p \in Procs, q \in ErrQueries, srcArg \in SourceArgs : crc_doc_query(p, q, srcArg)
    \/ \E p \in Procs, o \in FetchOutcomes : Response(p, o)
    \/ clear_cache
    \/ Exit

SpecErr == Init /\ [][NextErr]_vars

\* the server under queries of whitespace only
NextBlank ==
    \/ \E p \in Procs, q \in BlankQueries, srcArg \in SourceArgs : crc_doc_query(p, q, srcArg)
    \/ \E p \in Procs, o \in FetchOutcomes : Response(p, o)
    \/ clear_cache
    \/ Exit

SpecBlank == Init /\ [][NextBlank]_vars

\* the call in slot p waits for the end of its HTTP exchange: the states in
\* which \E o \in FetchOutcomes : Response(p, o) is enabled
Waiting(p) == phase = "serving" /\ pc[p] = "get"

\* the steps of \E o \in FetchOutcomes : Response(p, o), told by their effect:
\* the call in slot p leaves the exchange it was suspended in
Completed(p) ==
    /\ Waiting(p)
    /\ phase' = "serving"
    /\ pc'[p] # "get" \/ idx'[p] # idx[p]

\* weak fairness of the response in each slot, WF_vars(\E o : Response(p, o)),
\* written out with its enabling condition and its steps:
\* session.get(url, timeout=10) ends within the timeout, with a response or
\* with an exception
SpecLive ==
    Spec /\ \A p \in Procs : ([]<>(~Waiting(p)) \/ []<><<Completed(p)>>_vars)

\* the server with fetch_documentation also called directly
FetchArgs == SourceNames \cup {"docs"}

NextFetch ==
    \/ Next
    \/ \E p \in Procs, source_name \in FetchArgs : fetch_documentation(p, source_name)

SpecFetch == Init /\ [][NextFetch]_vars

(***************************************************************************)
(* find_relevant_sections called on its own: texts made of up to           *)
(* MaxFragments sentences drawn from a pool, each followed by a full stop. *)
(***************************************************************************)
MaxFragments == 6

\* under the query "vm" the first scores 0 and the other two score 1; under
\* "Crc  VM" they score 1, 3 and 2
FragmentPool == { "crc alpha aaaaaaaaaaaaaa",
                  " a VM runs CRC and crc b ",
                  "crc gamma vm cccccccccc" }

RankQueries == {"vm", "Crc  VM"}

RECURSIVE texts_of(_)
texts_of(k) ==
    IF k = 0 THEN {""}
    ELSE {t \o f \o "." : t \in texts_of(k - 1), f \in FragmentPool}

RankTexts == UNION {texts_of(k) : k \in 0..MaxFragments}

InitRank ==
    /\ InitServer
    /\ rank_call \in [content : RankTexts, q : RankQueries, done : {FALSE}, sections : {<<>>}]
    /\ extract_call = NoExtract

\* find_relevant_sections(content, query) runs on the drawn arguments
NextRank ==
    /\ ~rank_call.done
    /\ rank_call' = [rank_call EXCEPT
                        !.done = TRUE,
                        !.sections = find_relevant_sections(rank_call.content, rank_call.q)]
    /\ UNCHANGED << server, extract_call >>

SpecRank == InitRank /\ [][NextRank]_vars

\* find_relevant_sections on short texts whose pieces differ in length around
\* 20, in case and in surrounding whitespace, under queries with repeated
\* terms
MaxScoreFragments == 3

ScorePool == { "crc alpha aaaaaaaaaaaaaa",
               "  vm twenty chars long  ",
               "\tVm twenty chars longer\n",
               " a VM runs CRC and crc b ",
               "short aa" }

ScoreQueries == {"aa AA", "vm", "Crc  VM crc"}

RECURSIVE score_texts_of(_)
score_texts_of(k) ==
    IF k = 0 THEN {""}
    ELSE {t \o f \o "." : t \in score_texts_of(k - 1), f \in ScorePool}

ScoreTexts == UNION {score_texts_of(k) : k \in 0..MaxScoreFragments}

InitScore ==
    /\ InitServer
    /\ rank_call \in [content : ScoreTexts, q : ScoreQueries, done : {FALSE}, sections : {<<>>}]
    /\ extract_call = NoExtract

SpecScore == InitScore /\ [][NextRank]_vars

(***************************************************************************)
(* extract_text_content called on its own: documents of up to MaxBlocks    *)
(* blocks drawn from a pool, bare, inside a body, or inside a body with    *)
(* text before it.                                                         *)
(***************************************************************************)
MaxBlocks == 3

BlockPool ==
    { Txt("loose"),
      El("script", <<>>, << Txt("loose") >>),
      El("nav", <<>>, << El("main", <<>>, << Txt("navmain") >>) >>),
      El("main", <<>>, << Txt(" maintext\n"), El("footer", <<>>, << Txt("foot") >>) >>),
      El("article", <<>>, << Txt("arttext"), El("div", <<"content">>, << Txt("inart") >>) >>),
      El("div", <<"wide", "content">>, << Txt("conttext"), El("header", <<>>, << Txt("head") >>) >>),
      El("div", <<"documentation">>, << Txt("doctext") >>),
      El("section", <<"content">>, << Txt("secttext") >>) }

RECURSIVE blocks_of(_)
blocks_of(k) ==
    IF k = 0 THEN {<<>>}
    ELSE {<<b>> \o t : b \in BlockPool, t \in blocks_of(k - 1)}

BlockLists == UNION {blocks_of(k) : k \in 0..MaxBlocks}

Documents ==
    BlockLists
    \cup {<< El("body", <<>>, bs) >> : bs \in BlockLists}
    \cup {<< Txt("outside"), El("body", <<>>, bs) >> : bs \in BlockLists}

InitExtract ==
    /\ InitServer
    /\ rank_call = NoRank
    /\ extract_call \in [html : Documents, done : {FALSE}, text : {""}]

\* extract_text_content(html_content) runs on the drawn document
NextExtract ==
    /\ ~extract_call.done
    /\ extract_call' = [extract_call EXCEPT
                           !.done = TRUE,
                           !.text = extract_text_content(extract_call.html)]
    /\ UNCHANGED << server, rank_call >>

SpecExtract == InitExtract /\ [][NextExtract]_vars

(***************************************************************************)
(* Properties.                                                             *)
(***************************************************************************)

\* the query in slot p issues a fetch of source s in this step
FetchIssued(p, s) ==
    /\ pc'[p] = "get"
    /\ op'[p] = "query"
    /\ sources'[p][idx'[p]] = s
    /\ pc[p] # "get" \/ idx'[p] # idx[p]

NoFetchIssued == \A p \in Procs : pc'[p] = "get" => pc[p] = "get" /\ idx'[p] = idx[p]

AllIdle == \A p \in Procs : pc[p] = "idle"

\* C1: while queries run one after another with no clear_cache in between, a
\* fetch is issued only for a source that has not been fetched yet in the
\* sequence and is not cached, and a query that has returned leaves every
\* registered source it targets fetched and cached
C1_SequentialFetchOnce ==
    /\ [](sequential /\ returned.op = "query" /\ returned.query # ""
            => /\ Targets(returned.sources) \subseteq fetched
               /\ Targets(returned.sources) \subseteq DOMAIN doc_cache)
    /\ [][sequential' => \A p \in Procs, s \in SourceNames :
            FetchIssued(p, s) => s \notin fetched /\ s \notin DOMAIN doc_cache]_vars

\* a first query fetched all three sources; the second, over the list with
\* a repeated and an unregistered name, has returned from cache hits alone
C1_Witness ==
    /\ sequential
    /\ calls = 2
    /\ AllIdle
    /\ returned.op = "query"
    /\ returned.query = "crc"
    /\ returned.sources = MixedList
    /\ fetched = SourceNames

\* C2: by the time the first query that starts after clear_cache and
\* targets a source cached before the clear returns, a fetch of that source
\* has been issued since the clear
C2_FirstQueryAfterClearFetches ==
    returned.op = "query" => returned.owes = {}

\* C3: a fetch that ends in a status other than 200 or in a transport
\* failure stores an error string as the source's cache entry, and a fetch
\* is issued only for a source that has no cache entry
C3_ErrorsAreCached ==
    /\ [][\A p \in Procs, o \in FetchOutcomes :
            (op[p] = "query" /\ (o.status # 200 \/ o.exc # NoExc) /\ Response(p, o))
            => LET s == sources[p][idx[p]]
               IN  /\ s \in DOMAIN doc_cache'
                   /\ IsErrorString(doc_cache'[s])
                   /\ \A r \in Procs : ~FetchIssued(r, s)]_vars
    /\ [][\A p \in Procs, s \in SourceNames :
            FetchIssued(p, s) => s \notin DOMAIN doc_cache]_vars

\* a first query cached error strings; the second query has returned from
\* those entries without a fetch
C3_Witness ==
    /\ sequential
    /\ calls = 2
    /\ AllIdle
    /\ returned.op = "query"
    /\ returned.sources = MixedList
    /\ fetched = SourceNames
    /\ Len(returned.used) = 3
    /\ returned.used[1].content = "Failed to fetch https://crc.dev/blog (Status: 404)"
    /\ returned.used[2].content = "Error fetching https://crc.dev/docs: Connection reset by peer"
    /\ doc_cache["crc"] = returned.used[2].content

\* C4: a call with an empty query returns 'Please provide a query.', issues
\* no fetch and leaves the cache and the session as they were
C4_EmptyQueryTouchesNothing ==
    [][\A p \in Procs, srcArg \in SourceArgs :
        crc_doc_query(p, "", srcArg)
        => /\ returned'.value = "Please provide a query."
           /\ doc_cache' = doc_cache
           /\ session' = session
           /\ NoFetchIssued]_vars

\* an empty query has returned while the cache holds entries and another
\* query is suspended in a fetch
C4_Witness ==
    /\ returned.op = "query"
    /\ returned.query = ""
    /\ returned.value = "Please provide a query."
    /\ doc_cache # EmptyCache
    /\ InFlight # {}

\* the string fetch_documentation owes its caller for a registered source
ExpectedFetch(url, o) ==
    IF o.exc # NoExc THEN "Error fetching " \o url \o ": " \o o.exc
    ELSE IF o.status = 200 THEN extract_text_content(Page(url))
    ELSE "Failed to fetch " \o url \o " (Status: " \o str_int(o.status) \o ")"

\* C5: no call ends in a fault; a direct fetch_documentation call returns
\* 'Unknown source: ...' without a request for an unregistered name, and for
\* a registered one the extracted text, the 'Failed to fetch' string or the
\* 'Error fetching' string, by the outcome of the request
C5_FetchNeverRaises ==
    /\ [](\A p \in Procs : pc[p] # "fault")
    /\ [][\A p \in Procs :
            /\ \A source_name \in FetchArgs \ SourceNames :
                  fetch_documentation(p, source_name)
                  => /\ returned'.value = "Unknown source: " \o source_name
                     /\ session' = session
                     /\ NoFetchIssued
            /\ \A o \in FetchOutcomes :
                  (pc[p] = "get" /\ op[p] = "fetch" /\ Response(p, o))
                  => /\ returned'.op = "fetch"
                     /\ returned'.value = ExpectedFetch(url_of(sources[p][1]), o)]_vars

\* a direct call has returned the string for a 404
C5_Witness ==
    /\ returned.op = "fetch"
    /\ returned.value = "Failed to fetch https://crc.dev/docs (Status: 404)"

\* C6: a call with a non-empty query and no registered name in its sources
\* list returns the 'No relevant information found' message, issues no
\* fetch and writes nothing to the cache
C6_UnregisteredOnly ==
    [][\A p \in Procs, q \in Queries \ {""}, srcArg \in SourceLists :
        (Targets(srcArg) = {} /\ crc_doc_query(p, q, srcArg))
        => /\ returned'.value = "No relevant information found for: '" \o q \o "'"
           /\ doc_cache' = doc_cache
           /\ session' = session
           /\ NoFetchIssued]_vars

\* the call over the unregistered name has returned
C6_Witness ==
    /\ returned.op = "query"
    /\ returned.sources = <<"docs">>
    /\ returned.value = "No relevant information found for: 'crc'"
    /\ doc_cache # EmptyCache

RECURSIVE registered_in(_)
registered_in(srcs) ==
    IF srcs = <<>> THEN <<>>
    ELSE IF Head(srcs) \in SourceNames THEN <<Head(srcs)>> \o registered_in(Tail(srcs))
    ELSE registered_in(Tail(srcs))

RECURSIVE qualifying(_, _)
qualifying(us, q) ==
    IF us = <<>> THEN <<>>
    ELSE IF find_relevant_sections(Head(us).content, q) # <<>>
         THEN <<Head(us).source>> \o qualifying(Tail(us), q)
         ELSE qualifying(Tail(us), q)

\* C7: a returned query has read the text of exactly the registered names of
\* its target list, in list order; its result set holds, in that order, the
\* ones whose text has a fragment of positive score; the value is the 'No
\* relevant information found' message exactly when there is none; and a
\* call without a sources argument targets the registry keys in order
C7_ResultSet ==
    /\ [](returned.op = "query" /\ returned.query # ""
            => /\ [i \in 1..Len(returned.used) |-> returned.used[i].source]
                    = registered_in(returned.sources)
               /\ [i \in 1..Len(returned.results) |-> returned.results[i].source]
                    = qualifying(returned.used, returned.query)
               /\ \A i \in 1..Len(returned.results) : returned.results[i].sections # <<>>
               /\ (returned.results = <<>>)
                    <=> (returned.value = "No relevant information found for: '"
                                            \o returned.query \o "'"))
    /\ [][\A p \in Procs : crc_doc_query(p, "crc", None)
            => \/ returned'.sources = <<"crc", "crc-blog", "crc-dev">>
               \/ sources'[p] = <<"crc", "crc-blog", "crc-dev">>]_vars

\* a query without a sources argument has returned with the docs and the
\* blog in its result set and the engineering notes, whose text does not
\* match, left out
C7_Witness ==
    /\ returned.op = "query"
    /\ returned.sources = <<"crc", "crc-blog", "crc-dev">>
    /\ Len(returned.used) = 3
    /\ returned.used[3].content = "Engineering notes cover the vm driver."
    /\ Len(returned.results) = 2
    /\ returned.results[1].source = "crc"
    /\ returned.results[2].source = "crc-blog"

RECURSIVE scores_of(_, _)
scores_of(sentences, terms) ==
    IF sentences = <<>> THEN <<>>
    ELSE <<score_of(Head(sentences), terms)>> \o scores_of(Tail(sentences), terms)

\* C8: the ranker returns at most 5 fragments, each of positive score, in
\* descending score order; the fragment at place k is the one that has k-1
\* fragments of positive score before it in the order "higher score, or
\* equal score and earlier in the text"
C8_RankerOrder ==
    rank_call.done =>
        LET terms == str_split_ws(str_lower(rank_call.q))
            frags == sentences_of(rank_call.content)
            sc == scores_of(frags, terms)
            pos == {i \in 1..Len(frags) : sc[i] > 0}
            place(j) == 1 + Cardinality({i \in pos : sc[i] > sc[j] \/ (sc[i] = sc[j] /\ i < j)})
            out == rank_call.sections
        IN  /\ Len(out) <= 5
            /\ Len(out) = IF Cardinality(pos) < 5 THEN Cardinality(pos) ELSE 5
            /\ \A j \in pos : place(j) <= 5 => out[place(j)] = frags[j]
            /\ \A k \in 1..Len(out) : score_of(out[k], terms) > 0
            /\ \A k \in 1..(Len(out) - 1) :
                    score_of(out[k], terms) >= score_of(out[k + 1], terms)

\* six fragments of positive score, with ties: the three of score 3 come
\* first, then the first two of score 2, and the last fragment is dropped
C8_Witness ==
    /\ rank_call.done
    /\ rank_call.q = "Crc  VM"
    /\ rank_call.content = "crc gamma vm cccccccccc. a VM runs CRC and crc b .crc gamma vm cccccccccc. a VM runs CRC and crc b . a VM runs CRC and crc b .crc gamma vm cccccccccc."
    /\ rank_call.sections = << "a VM runs CRC and crc b", "a VM runs CRC and crc b",
                               "a VM runs CRC and crc b", "crc gamma vm cccccccccc",
                               "crc gamma vm cccccccccc" >>

\* C9: a clear_cache call leaves the cache empty, returns the confirmation
\* string, and leaves the session and every suspended query as they were
C9_ClearEmptiesCache ==
    [][returned'.op = "clear"
        => /\ DOMAIN doc_cache' = {}
           /\ returned'.value = "Documentation cache cleared. Fresh content will be fetched on next query."
           /\ session' = session
           /\ locals' = locals]_vars

\* clear_cache has returned after emptying a cache that held entries while
\* a query was suspended in a fetch
C9_Witness ==
    /\ returned.op = "clear"
    /\ owed # {}
    /\ InFlight # {}
    /\ doc_cache = EmptyCache
    /\ session = "open"

\* C10: once the process has exited, a session that was created is closed
C10_ExitClosesSession ==
    phase = "exited" /\ session # "none" => session = "closed"

\* the stripped texts of a node list that lie inside (within = TRUE) or
\* outside an excluded element
RECURSIVE texts_within(_, _, _)
texts_within(nodes, inside, within) ==
    IF nodes = <<>> THEN {}
    ELSE LET n == Head(nodes)
             here == IF IsText(n)
                     THEN (IF inside = within THEN {str_strip(n.text)} ELSE {})
                     ELSE texts_within(n.children,
                              inside \/ n.name \in {"script", "style", "nav", "header", "footer"},
                              within)
         IN  here \cup texts_within(Tail(nodes), inside, within)

hidden_texts(html) == texts_within(html, FALSE, TRUE) \ texts_within(html, FALSE, FALSE)

\* C11: the extracted text contains no text that the document holds only
\* inside script, style, nav, header or footer elements
C11_ExcludedTextAbsent ==
    extract_call.done =>
        \A t \in hidden_texts(extract_call.html) : str_count(extract_call.text, t) = 0

\* the main element is the root, its footer and the script are gone, and
\* the text of the script occurs nowhere else in the document
C11_Witness ==
    /\ extract_call.done
    /\ extract_call.text = "maintext"
    /\ {"foot", "loose"} \subseteq hidden_texts(extract_call.html)

\* the root of the sentence "main, else article, else the first element with
\* class content, else the first with class documentation, else body, else
\* the whole document"
first_with(nodes, Hit(_)) ==
    LET hits == SelectSeq(descendants(nodes), Hit)
    IN  IF hits = <<>> THEN NoNode ELSE Head(hits)

root_by_class(soup) ==
    LET IsMain(n) == n.name = "main"
        IsArticle(n) == n.name = "article"
        IsContent(n) == HasClass(n, "content")
        IsDocumentation(n) == HasClass(n, "documentation")
        IsBody(n) == n.name = "body"
        cands == << first_with(soup, IsMain), first_with(soup, IsArticle),
                    first_with(soup, IsContent), first_with(soup, IsDocumentation),
                    first_with(soup, IsBody) >>
        found == {i \in 1..Len(cands) : cands[i] # NoNode}
    IN  IF found = {} THEN soup
        ELSE cands[CHOOSE i \in found : \A j \in found : i <= j].children

\* C17: the extracted text is the text of the root chosen in the order main,
\* article, first element with class content, first element with class
\* documentation, body, whole document
C17_RootByClass ==
    extract_call.done =>
        extract_call.text =
            collapse_whitespace(get_text(root_by_class(decompose_unwanted(extract_call.html))))

\* the strings a completed fetch of each source can return
FetchResults ==
    [i \in 1..Len(DOC_SOURCES) |->
        {ExpectedFetch(DOC_SOURCES[i].url, o) : o \in FetchOutcomes}]

results_for(s) == FetchResults[CHOOSE i \in 1..Len(DOC_SOURCES) : DOC_SOURCES[i].name = s]

\* C12: the completion of a query's fetch stores that fetch's result as the
\* source's entry, whatever the entry held, so the fetch that completes last
\* leaves its result; every entry is the result of a fetch of its source;
\* and the cache has at most one entry for each of the three identifiers
C12_LastWriteWins ==
    /\ [](/\ \A s \in DOMAIN doc_cache :
                s \in SourceNames => doc_cache[s] \in results_for(s)
          /\ Cardinality(DOMAIN doc_cache) <= 3)
    /\ [][\A p \in Procs, o \in FetchOutcomes :
            (op[p] = "query" /\ Response(p, o))
            => LET s == sources[p][idx[p]]
               IN  /\ s \in DOMAIN doc_cache'
                   /\ doc_cache'[s] = ExpectedFetch(url_of(s), o)]_vars

\* two queries fetched the blog at the same time; the second has stored its
\* result and gone on to the docs while the first still waits for the blog
C12_Witness ==
    /\ pc = <<"get", "get">>
    /\ idx[1] = 1 /\ sources[1] = MixedList
    /\ idx[2] = 3 /\ sources[2] = MixedList
    /\ DOMAIN doc_cache = {"crc-blog"}
    /\ used[2][1].source = "crc-blog"
    /\ doc_cache["crc-blog"] = used[2][1].content

\* C13: no step other than clear_cache and the end of the process removes a
\* key from the cache
C13_EntriesPersist ==
    [][(phase' = "serving" /\ returned'.op # "clear")
        => DOMAIN doc_cache \subseteq DOMAIN doc_cache']_vars

\* a query has returned with all three sources cached while another query
\* is suspended in a fetch
C13_Witness ==
    /\ returned.op = "query"
    /\ DOMAIN doc_cache = {"crc", "crc-blog", "crc-dev"}
    /\ InFlight # {}

\* C18: every key of the cache is one of the registered identifiers
C18_KeysRegistered ==
    DOMAIN doc_cache \subseteq {"crc", "crc-blog", "crc-dev"}

\* a query over the list with an unregistered and a repeated name has
\* returned, and the cache holds the two registered names of the list
C18_Witness ==
    /\ returned.op = "query"
    /\ returned.sources = MixedList
    /\ DOMAIN doc_cache = {"crc", "crc-blog"}

\* C14: at most one session is created, and a session, once there, is the
\* one every later step finds
C14_OneSession ==
    /\ [](/\ sessions_created <= 1
          /\ (session = "none") <=> (sessions_created = 0))
    /\ [][session # "none" => session' = session]_vars

\* two queries are suspended in their first fetches, issued while nothing
\* was cached, and one session exists
C14_Witness ==
    /\ pc = <<"get", "get">>
    /\ calls = 2
    /\ used = <<<<>>, <<>>>>
    /\ doc_cache = EmptyCache
    /\ session = "open"
    /\ sessions_created = 1

\* C15: no call ends in a fault; a query that returns has read every
\* registered name of its target list and, if clear_cache did not run while
\* it was in progress, leaves each of them cached; and a query suspended in
\* a fetch returns in the end (or the process ends)
C15_QueryGoesOn ==
    /\ [](\A p \in Procs : pc[p] # "fault")
    /\ [](returned.op = "query" /\ returned.query # ""
            => /\ Len(returned.used) = Len(registered_in(returned.sources))
               /\ ~returned.cleared
                    => Targets(returned.sources) \subseteq DOMAIN doc_cache)
    /\ \A p \in Procs : (pc[p] = "get") ~> (pc[p] = "idle")

\* a query over all sources has returned, undisturbed by clear_cache, after
\* its first fetch failed and its last one succeeded
C15_Witness ==
    /\ returned.op = "query"
    /\ ~returned.cleared
    /\ returned.sources = <<"crc", "crc-blog", "crc-dev">>
    /\ Len(returned.used) = 3
    /\ returned.used[1].content = "Error fetching https://crc.dev/docs: Connection reset by peer"
    /\ returned.used[3].content = "Engineering notes cover the vm driver."
    /\ DOMAIN doc_cache = {"crc", "crc-blog", "crc-dev"}

\* the least element of a non-empty set of numbers
least(S) == CHOOSE i \in S : \A j \in S : i <= j

\* the piece of text c that starts at position a and runs up to the next
\* full stop, or to the end
piece_at(c, a) ==
    LET dots == {d \in a..Len(c) : Ch(c, d) = "."}
    IN  SubSeq(c, a, (IF dots = {} THEN Len(c) + 1 ELSE least(dots)) - 1)

\* a string without its leading and trailing whitespace
trimmed(t) ==
    LET solid == {i \in 1..Len(t) : Ch(t, i) \notin {" ", "\t", "\n", "\r", "\f"}}
    IN  IF solid = {} THEN ""
        ELSE SubSeq(t, least(solid), CHOOSE i \in solid : \A j \in solid : j <= i)

\* occurrences of term in s from position from on, taken left to right
\* without overlap
RECURSIVE occurrences(_, _, _)
occurrences(s, term, from) ==
    LET hits == {i \in from..(Len(s) - Len(term) + 1) : SubSeq(s, i, i + Len(term) - 1) = term}
    IN  IF hits = {} THEN 0
        ELSE 1 + occurrences(s, term, least(hits) + Len(term))

\* the term of the lowercased query that starts at position a
term_at(lq, a) ==
    LET gaps == {i \in a..Len(lq) : Ch(lq, i) \in {" ", "\t", "\n", "\r", "\f"}}
    IN  SubSeq(lq, a, (IF gaps = {} THEN Len(lq) + 1 ELSE least(gaps)) - 1)

RECURSIVE total_over(_, _, _)
total_over(starts, lq, ls) ==
    IF starts = {} THEN 0
    ELSE LET a == least(starts)
         IN  occurrences(ls, term_at(lq, a), 1) + total_over(starts \ {a}, lq, ls)

\* the score of a fragment: over every term of the query, repeated or not,
\* the occurrences of the term in the lowercased fragment
fragment_score(fragment, q) ==
    LET lq == str_lower(q)
        starts == {a \in 1..Len(lq) :
                      /\ Ch(lq, a) \notin {" ", "\t", "\n", "\r", "\f"}
                      /\ a = 1 \/ Ch(lq, a - 1) \in {" ", "\t", "\n", "\r", "\f"}}
    IN  total_over(starts, lq, str_lower(fragment))

\* C16: the fragments returned are the trimmed pieces between full stops,
\* in their original case, that are longer than 20 characters and in which
\* the terms of the query occur; with at most five such pieces each is
\* returned as often as it occurs, in descending order of the score
C16_FragmentsAndScores ==
    rank_call.done =>
        LET c == rank_call.content
            q == rank_call.q
            out == rank_call.sections
            starts == {1} \cup {d + 1 : d \in {i \in 1..Len(c) : Ch(c, i) = "."}}
            good == {a \in starts :
                        /\ Len(trimmed(piece_at(c, a))) > 20
                        /\ fragment_score(trimmed(piece_at(c, a)), q) > 0}
        IN  /\ \A k \in 1..Len(out) : \E a \in good : out[k] = trimmed(piece_at(c, a))
            /\ Cardinality(good) <= 5 =>
                 \A a \in good :
                    Cardinality({k \in 1..Len(out) : out[k] = trimmed(piece_at(c, a))})
                    = Cardinality({b \in good : trimmed(piece_at(c, b)) = trimmed(piece_at(c, a))})
            /\ \A k \in 1..(Len(out) - 1) :
                    fragment_score(out[k], q) >= fragment_score(out[k + 1], q)

\* under a query with a repeated term the piece of 20 characters is left
\* out, and the three longer ones come back trimmed, in their own case, by
\* scores 5, 2 and 1
C16_Witness ==
    /\ rank_call.done
    /\ rank_call.q = "Crc  VM crc"
    /\ rank_call.content = "  vm twenty chars long  .crc alpha aaaaaaaaaaaaaa.\tVm twenty chars longer\n."
    /\ rank_call.sections = << "crc alpha aaaaaaaaaaaaaa", "Vm twenty chars longer" >>

\* the text has a piece between full stops, longer than 20 characters when
\* trimmed, in which a term of the query occurs
has_scoring_fragment(c, q) ==
    \E a \in {1} \cup {d + 1 : d \in {i \in 1..Len(c) : Ch(c, i) = "."}} :
        /\ Len(trimmed(piece_at(c, a))) > 20
        /\ fragment_score(trimmed(piece_at(c, a)), q) > 0

RECURSIVE scoring_entries(_, _)
scoring_entries(us, q) ==
    IF us = <<>> THEN <<>>
    ELSE (IF has_scoring_fragment(Head(us).content, q) THEN <<Head(us)>> ELSE <<>>)
         \o scoring_entries(Tail(us), q)

\* C19: the strings of failed fetches are ranked like page text: the result
\* set of a returned query holds, in order, the sources it read whose string,
\* error string or not, has a fragment of positive score, each with the
\* ranker's fragments of that string as its sections, and the report is
\* the report of that result set and nothing else
C19_ErrorStringsRanked ==
    returned.op = "query" /\ returned.query # ""
        => LET kept == scoring_entries(returned.used, returned.query)
           IN  /\ Len(returned.results) = Len(kept)
               /\ \A k \in 1..Len(kept) :
                     /\ returned.results[k].source = kept[k].source
                     /\ returned.results[k].sections
                            = find_relevant_sections(kept[k].content, returned.query)
               /\ returned.value = format_response(returned.query, returned.results)

\* a query for "reset" has read the docs after a transport failure, the blog
\* after a 404 and the engineering notes: only the docs are in its result
\* set, with a piece of the error string as their section
C19_Witness ==
    /\ returned.op = "query"
    /\ returned.query = "reset"
    /\ Len(returned.used) = 3
    /\ returned.used[1].content = "Error fetching https://crc.dev/docs: Connection reset by peer"
    /\ returned.used[2].content = "Failed to fetch https://crc.dev/blog (Status: 404)"
    /\ returned.used[3].content = "Engineering notes cover the vm driver."
    /\ Len(returned.results) = 1
    /\ returned.results[1].source = "crc"
    /\ returned.results[1].sections = << "dev/docs: Connection reset by peer" >>

\* the first registered name of a target list that the cache does not hold
first_uncached(srcs, cache) ==
    LET open == {i \in 1..Len(srcs) : srcs[i] \in SourceNames /\ srcs[i] \notin DOMAIN cache}
    IN  IF open = {} THEN 0 ELSE least(open)

\* C20: a query of whitespace only is not taken for an empty one: the call
\* goes into the fetch of the first registered target the cache does not
\* hold; when it returns it has read every registered target, has found a
\* fragment in none, its value is the 'No relevant information found'
\* message, and, if clear_cache did not run while it was in progress, every
\* registered target is cached
C20_BlankQueryFetches ==
    /\ [][\A p \in Procs, srcArg \in SourceArgs :
            crc_doc_query(p, " \t", srcArg)
            => LET srcs == IF srcArg = None THEN << "crc", "crc-blog", "crc-dev" >> ELSE srcArg
                   i == first_uncached(srcs, doc_cache)
               IN  IF i = 0 THEN returned'.query = " \t" /\ pc'[p] = "idle"
                   ELSE pc'[p] = "get" /\ idx'[p] = i /\ FetchIssued(p, srcs[i])]_vars
    /\ [](returned.op = "query" /\ returned.query = " \t"
            => /\ [i \in 1..Len(returned.used) |-> returned.used[i].source]
                    = registered_in(returned.sources)
               /\ \A i \in 1..Len(returned.used) :
                     ~has_scoring_fragment(returned.used[i].content, " \t")
               /\ returned.results = <<>>
               /\ returned.value = "No relevant information found for: ' \t'"
               /\ ~returned.cleared
                    => Targets(returned.sources) \subseteq DOMAIN doc_cache)

\* a blank query over all sources has returned the message, undisturbed by
\* clear_cache, after three fetches that filled the cache
C20_Witness ==
    /\ returned.op = "query"
    /\ returned.query = " \t"
    /\ ~returned.cleared
    /\ returned.sources = << "crc", "crc-blog", "crc-dev" >>
    /\ Len(returned.used) = 3
    /\ returned.used[3].content = "Engineering notes cover the vm driver."
    /\ returned.value = "No relevant information found for: ' \t'"
    /\ DOMAIN doc_cache = {"crc", "crc-blog", "crc-dev"}
    /\ calls = 1

====
